---- MODULE Spec2Model ----
(***************************************************************************)
(* Model of AndroidDeviceManager (src/fastboot_toolbox.py): the device     *)
(* session (connected, device_info), the operations that shell out to      *)
(* fastboot/adb, and the multi-step procedures built on them.              *)
(*                                                                         *)
(* The external tools are the environment: every reply of an external      *)
(* command (exit status, stdout, timeout) is an input chosen with \E.      *)
(* trace is a history of the device commands issued by the call in         *)
(* progress (getvar property queries of the populate helpers are folded    *)
(* into their replies and not listed); last describes the most recent      *)
(* completed method call.                                                  *)
(***************************************************************************)
EXTENDS Integers, Sequences, FiniteSets, TLC

VARIABLES
    connected,      \* AndroidDeviceManager.connected
    device_info,    \* AndroidDeviceManager.device_info (None or a DeviceInfo)
    pc,             \* position of the caller: "idle", "unbrick", "backup", "gsi",
                    \* "done" (a procedure returned), "raised" (an exception left main)
    step,           \* index of the next step of the procedure in progress
    member,         \* index of the next member of the loop in progress
    trace,          \* device commands issued by the current top-level call
    last,           \* the most recent completed method call
    stepResults,    \* results of the unbrick steps invoked so far, in order
    fan,            \* the fan-out loop in progress or last finished
    procRet,        \* return value of the last procedure: "none", "running", "true", "false", "raised"
    callers,        \* for each of the callers that share one manager from several
                    \* threads: its position in the method it runs, and what it read
    logfs,          \* the log directory: the clock that names log files, the files,
                    \* the log_file of each manager, and what was appended to each file
    main            \* the program started from its entry point: the position of main(),
                    \* the password attempts left, the passwords read so far, and
                    \* whether the AndroidDeviceManager has been constructed

vars == <<connected, device_info, pc, step, member, trace, last, stepResults, fan, procRet,
          callers, logfs, main>>

(***************************************************************************)
(* Data                                                                    *)
(***************************************************************************)

\* DeviceState values the code ever assigns or compares with.
FASTBOOT == "fastboot"
ADB == "adb"

\* self.device_info = None
None == [state |-> "none", slot_current |-> "unknown", slot_suffix |-> "",
         is_ab |-> FALSE, dynamic_partitions |-> FALSE]

\* DeviceInfo(serial=..., state=st) with the dataclass defaults.
DeviceInfo(st) == [state |-> st, slot_current |-> "unknown", slot_suffix |-> "",
                   is_ab |-> FALSE, dynamic_partitions |-> FALSE]

Session == [connected |-> connected, device_info |-> device_info]

\* The mode the session holds: "none" when no identity is held.
HeldMode(s) == IF s.device_info = None THEN "none" ELSE s.device_info.state

\* One external command, with the mode the session held when it was issued.
Cmd(tool, verb, part, suffix, s) ==
    [tool |-> tool, verb |-> verb, part |-> part, suffix |-> suffix, held |-> HeldMode(s)]

\* Replies of run_command: "ok" returncode 0, "fail" non-zero returncode,
\* "exc" TimeoutError / RuntimeError raised by run_command.
CmdReply == {"ok", "fail", "exc"}

\* Replies of a device-list probe (fastboot devices / adb devices):
\*   "exc"     run_command raised
\*   "empty"   result.stdout.strip() is empty
\*   "nomatch" stdout has lines, none (after the adb header) holds the marker
\*   "dev"     a line holds '\tfastboot' (resp. '\tdevice' after the header)
ProbeReply == {"exc", "empty", "nomatch", "dev"}

\* Replies of the slot query (fastboot getvar current-slot, adb getprop
\* ro.boot.slot_suffix): "none" failed, empty, or a query up to this one
\* raised; "a"/"b" the slot; "x" any other value.
SlotReply == {"none", "a", "b", "x"}

\* Replies of the dynamic-partition query (fastboot getvar partition-type:system
\* holding 'dynamic', adb getprop ro.boot.dynamic_partitions equal to 'true'):
\* "yes", or "no" for any other value, a failed query or a raised one.
DynReply == {"yes", "no"}

\* The inputs of one detect_device run: the reply of each probe (adb is what
\* adb devices replies if it is run) and of the populate queries. Fields a
\* run cannot read are fixed, but for a raised fastboot probe, where both
\* states of the ADB side are kept.
DetectInputs ==
    { [fb |-> "dev", adb |-> "empty", slot |-> sl, dyn |-> dy] : sl \in SlotReply, dy \in DynReply }
    \cup { [fb |-> "exc", adb |-> a, slot |-> "none", dyn |-> "no"] : a \in {"empty", "dev"} }
    \cup { [fb |-> f, adb |-> a, slot |-> "none", dyn |-> "no"] :
             f \in {"empty", "nomatch"}, a \in ProbeReply \ {"dev"} }
    \cup { [fb |-> f, adb |-> "dev", slot |-> sl, dyn |-> dy] :
             f \in {"empty", "nomatch"}, sl \in SlotReply, dy \in DynReply }

(***************************************************************************)
(* Detection                                                               *)
(***************************************************************************)

\* _populate_fastboot_info: current-slot, then partition-type:system; an
\* exception leaves the remaining fields at their defaults.
_populate_fastboot_info(info, d) ==
    LET i1 == IF d.slot \in {"a", "b"}
              THEN [info EXCEPT !.slot_current = d.slot,
                                !.slot_suffix = IF d.slot = "a" THEN "_a" ELSE "_b",
                                !.is_ab = TRUE]
              ELSE info
    IN IF d.dyn = "yes" THEN [i1 EXCEPT !.dynamic_partitions = TRUE] ELSE i1

\* _populate_adb_info: ro.boot.slot_suffix (value "_" + slot), then
\* ro.boot.dynamic_partitions. SlotInfo(value.strip('_')) raises ValueError on
\* a value other than a/b, after slot_suffix and is_ab were already assigned.
_populate_adb_info(info, d) ==
    IF d.slot = "x"
    THEN [info EXCEPT !.slot_suffix = "_x", !.is_ab = TRUE]
    ELSE LET i1 == IF d.slot \in {"a", "b"}
                   THEN [info EXCEPT !.slot_suffix = IF d.slot = "a" THEN "_a" ELSE "_b",
                                     !.is_ab = TRUE,
                                     !.slot_current = d.slot]
                   ELSE info
         IN [i1 EXCEPT !.dynamic_partitions = (d.dyn = "yes")]

\* A found device installed without the connected flag.
Found_flag_unset(info, cmds) ==
    [s |-> [connected |-> FALSE, device_info |-> info], ret |-> TRUE, cmds |-> cmds]

NotFound(cmds) ==
    [s |-> [connected |-> FALSE, device_info |-> None], ret |-> FALSE, cmds |-> cmds]

Found(info, cmds) ==
    [s |-> [connected |-> TRUE, device_info |-> info], ret |-> TRUE, cmds |-> cmds]

\* The ADB half with the final two assignments of detect_device left out: a
\* detection that finds nothing leaves the session as it was.
detect_adb_keeps_session(s, d, cmds0) ==
    LET cmds == Append(cmds0, Cmd("adb", "devices", "", "", s))
    IN IF d.adb = "dev" THEN Found(_populate_adb_info(DeviceInfo(ADB), d), cmds)
       ELSE [s |-> s, ret |-> FALSE, cmds |-> cmds]

\* The ADB half of detect_device (lines 346-359).
detect_adb(s, d, cmds0) ==
    LET cmds == Append(cmds0, Cmd("adb", "devices", "", "", s))
    IN IF d.adb = "dev" THEN Found(_populate_adb_info(DeviceInfo(ADB), d), cmds)
       ELSE NotFound(cmds)

\* Detection probing ADB before fastboot.
detect_device_adb_first(s, d) ==
    LET cmds == <<Cmd("adb", "devices", "", "", s)>>
    IN IF d.adb = "exc" THEN NotFound(cmds)
       ELSE IF d.adb = "dev"
            THEN Found(_populate_adb_info(DeviceInfo(ADB), d), cmds)
       ELSE LET cmds2 == Append(cmds, Cmd("fastboot", "devices", "", "", s))
            IN IF d.fb = "dev"
               THEN Found(_populate_fastboot_info(DeviceInfo(FASTBOOT), d), cmds2)
               ELSE NotFound(cmds2)

\* detect_device: one try block around both probes; any exception ends in
\* connected = False, device_info = None.
detect_device(s, d) ==
    LET cmds == <<Cmd("fastboot", "devices", "", "", s)>>
    IN IF d.fb = "exc" THEN NotFound(cmds)
       ELSE IF d.fb = "dev"
            THEN Found(_populate_fastboot_info(DeviceInfo(FASTBOOT), d), cmds)
       ELSE detect_adb(s, d, cmds)

(***************************************************************************)
(* Single operations                                                       *)
(***************************************************************************)

Returned(s, ret, cmds) == [s |-> s, ret |-> ret, cmds |-> cmds, raised |-> FALSE]

\* An exception leaves the method: nothing is returned.
Raised(s, cmds) == [s |-> s, ret |-> FALSE, cmds |-> cmds, raised |-> TRUE]

\* An image file as validate_image_file reads it: whether the path exists, the
\* signature its first bytes hold, and whether its extension is one of .img,
\* .bin, .mbn.
ImageMagic == {"sparse", "boot", "gzip", "none"}
NoImage == [exists |-> FALSE, magic |-> "none", ext_listed |-> FALSE]
Images ==
    {NoImage}
    \cup { [exists |-> TRUE, magic |-> m, ext_listed |-> FALSE] : m \in ImageMagic }
    \cup { [exists |-> TRUE, magic |-> "none", ext_listed |-> TRUE] }

\* validate_image_file(filepath) (lines 219-245).
validate_image_file(image) ==
    IF ~image.exists THEN FALSE
    ELSE IF image.magic = "sparse" THEN TRUE
    ELSE IF image.magic = "boot" THEN TRUE
    ELSE IF image.ext_listed THEN TRUE
    ELSE IF image.magic = "gzip" THEN TRUE
    ELSE FALSE

\* The gate without its mode comparison.
WrongMode_connected_only(s) == ~s.connected

\* The mode gate of flash/erase/format/backup:
\*   if not self.connected or self.device_info.state != DeviceState.FASTBOOT
WrongMode(s) == ~s.connected \/ s.device_info.state # FASTBOOT

\* The suffix made to depend on the mode the identity was detected in.
part_name_by_mode(info, partition, slot) ==
    IF slot # "unknown" /\ info.is_ab /\ info.state = FASTBOOT
    THEN IF slot = "a" THEN "_a" ELSE "_b"
    ELSE ""

\* The suffix taken from the device's current slot instead of the argument.
part_name_from_device(info, partition, slot) ==
    IF slot # "unknown" /\ info.is_ab THEN info.slot_suffix ELSE ""

\* The dynamic-partition branch naming the slot-a logical partition.
part_name_dynamic_a(info, partition, slot) ==
    IF slot # "unknown" /\ info.is_ab
    THEN IF slot = "a" THEN "_a" ELSE "_b"
    ELSE IF info.dynamic_partitions /\ partition \in {"system", "vendor", "product"}
         THEN "_a"
         ELSE ""

\* The suffix flash_partition appends to the partition name (lines 491-495);
\* the elif branch assigns the unsuffixed name again.
part_name(info, partition, slot) ==
    IF slot # "unknown" /\ info.is_ab
    THEN IF slot = "a" THEN "_a" ELSE "_b"
    ELSE IF info.dynamic_partitions /\ partition \in {"system", "vendor", "product"}
         THEN ""
         ELSE ""

\* The liveness check with its result dropped.
flash_verify_unchecked(s, verify, d, cmds) ==
    IF verify
    THEN LET v == detect_device(s, d)
         IN Returned(v.s, TRUE, cmds \o v.cmds)
    ELSE Returned(s, TRUE, cmds)

\* Lines 507-518 of flash_partition: the post-flash liveness check.
flash_verify(s, verify, d, cmds) ==
    IF verify
    THEN LET v == detect_device(s, d)
         IN IF ~v.ret THEN Returned(v.s, FALSE, cmds \o v.cmds)
            ELSE Returned(v.s, TRUE, cmds \o v.cmds)
    ELSE Returned(s, TRUE, cmds)

\* flash_partition(partition, image_path, slot, verify); exists is
\* os.path.exists(image_path), r the reply of fastboot flash, d the inputs of
\* the verification detect.
flash_partition(s, partition, exists, slot, verify, r, d) ==
    IF WrongMode(s) THEN Returned(s, FALSE, <<>>)
    ELSE IF ~exists THEN Returned(s, FALSE, <<>>)
    ELSE LET cmds == <<Cmd("fastboot", "flash", partition,
                           part_name(s.device_info, partition, slot), s)>>
         IN IF r # "ok" THEN Returned(s, FALSE, cmds)
            ELSE flash_verify(s, verify, d, cmds)

\* flash_recovery(recovery_img): no slot argument.
flash_recovery(s, exists, r, d) ==
    flash_partition(s, "recovery", exists, "unknown", TRUE, r, d)

\* The wrappers passing no slot at all.
current_slot_arg_none(s) == "unknown"

\* The slot flash_system, flash_boot and flash_vendor pass on:
\*   self.device_info.slot_current if self.device_info.is_ab else SlotInfo.UNKNOWN
current_slot_arg(s) ==
    IF s.device_info.is_ab THEN s.device_info.slot_current ELSE "unknown"

\* The body shared by flash_system, flash_boot and flash_vendor; the slot
\* expression reads an attribute of self.device_info outside any try, which
\* raises AttributeError while device_info is None.
flash_slotted(s, partition, exists, r, d) ==
    IF s.device_info = None THEN Raised(s, <<>>)
    ELSE flash_partition(s, partition, exists, current_slot_arg(s), TRUE, r, d)

\* flash_boot(boot_img).
flash_boot(s, exists, r, d) == flash_slotted(s, "boot", exists, r, d)

\* flash_vendor(vendor_img).
flash_vendor(s, exists, r, d) == flash_slotted(s, "vendor", exists, r, d)

\* erase_partition(partition); r is the reply of fastboot erase.
erase_partition(s, partition, r) ==
    IF WrongMode(s) THEN Returned(s, FALSE, <<>>)
    ELSE Returned(s, r = "ok", <<Cmd("fastboot", "erase", partition, "", s)>>)

\* format_partition(partition); r is the reply of fastboot format.
format_partition(s, partition, r) ==
    IF WrongMode(s) THEN Returned(s, FALSE, <<>>)
    ELSE Returned(s, r = "ok", <<Cmd("fastboot", "format", partition, "", s)>>)

\* The reboot command reboot_to issues for a target (lines 457-467); for
\* bootloader no command is issued unless the state is ADB or FASTBOOT.
reboot_cmd(s, target) ==
    IF target = "bootloader"
    THEN IF s.device_info.state = ADB
         THEN <<Cmd("adb", "reboot", "bootloader", "", s)>>
         ELSE IF s.device_info.state = FASTBOOT
              THEN <<Cmd("fastboot", "reboot-bootloader", "bootloader", "", s)>>
              ELSE <<>>
    ELSE IF target = "recovery" THEN <<Cmd("adb", "reboot", "recovery", "", s)>>
    ELSE IF target = "fastbootd" THEN <<Cmd("fastboot", "reboot", "fastboot", "", s)>>
    ELSE IF target = "system" THEN <<Cmd("fastboot", "reboot", "system", "", s)>>
    ELSE <<>>

\* reboot_to(target): the exit status of the reboot command is not read; an
\* exception returns False; otherwise the result is that of detect_device.
reboot_to(s, target, r, d) ==
    IF ~s.connected THEN Returned(s, FALSE, <<>>)
    ELSE LET cmds == reboot_cmd(s, target)
         IN IF r = "exc" THEN Returned(s, FALSE, cmds)
            ELSE LET v == detect_device(s, d)
                 IN Returned(v.s, v.ret, cmds \o v.cmds)

\* _unlock_critical: no mode gate.
_unlock_critical(s, r) ==
    Returned(s, r = "ok", <<Cmd("fastboot", "flashing", "unlock_critical", "", s)>>)

(***************************************************************************)
(* unbrick_device                                                          *)
(***************************************************************************)

\* The step list of unbrick_device (lines 642-650).
steps == <<"detect_device", "reboot_bootloader", "_unlock_critical",
           "_erase_corrupt_partitions", "_flash_stock_images",
           "format_userdata", "reboot_system">>

\* partitions_to_erase of _erase_corrupt_partitions (lines 672-674).
partitions_to_erase == <<"boot", "recovery", "system", "vendor", "cache", "metadata">>

\* The keys of images in _flash_stock_images, in insertion order (lines 686-691).
images == <<"boot", "system", "vendor", "recovery">>

\* The loop without its early return.
unbrick_loop_keeps_going(i, ok) ==
    IF i = Len(steps) THEN [pc |-> "done", step |-> i, ret |-> IF ok THEN "true" ELSE "false"]
    ELSE [pc |-> "unbrick", step |-> i + 1, ret |-> "running"]

\* The loop of unbrick_device (lines 652-660) after step i returned ok.
unbrick_loop(i, ok) ==
    IF ~ok THEN [pc |-> "done", step |-> i, ret |-> "false"]
    ELSE IF i = Len(steps) THEN [pc |-> "done", step |-> i, ret |-> "true"]
    ELSE [pc |-> "unbrick", step |-> i + 1, ret |-> "running"]

\* The erase loop leaving at the first failed member.
_erase_corrupt_partitions_break(f, m, ok) ==
    [name |-> "erase",
     members |-> Append(f.members, [part |-> partitions_to_erase[m], called |-> TRUE, ok |-> ok]),
     ret |-> IF ~ok THEN FALSE ELSE f.ret,
     done |-> (m = Len(partitions_to_erase) \/ ~ok)]

\* One iteration of the loop of _erase_corrupt_partitions (lines 676-681):
\* f the loop's record so far, m the member index, ok what erase_partition returned.
_erase_corrupt_partitions(f, m, ok) ==
    [name |-> "erase",
     members |-> Append(f.members, [part |-> partitions_to_erase[m], called |-> TRUE, ok |-> ok]),
     ret |-> IF ~ok THEN FALSE ELSE f.ret,
     done |-> (m = Len(partitions_to_erase))]

\* The stock-image loop counting a missing image file as a failed member.
_flash_stock_images_missing_fails(f, m, called, ok) ==
    [name |-> "flash",
     members |-> Append(f.members, [part |-> images[m], called |-> called, ok |-> ok]),
     ret |-> IF ~called \/ ~ok THEN FALSE ELSE f.ret,
     done |-> (m = Len(images))]

\* One iteration of the loop of _flash_stock_images (lines 693-701): called is
\* image_path.exists(), ok what flash_partition returned when called.
_flash_stock_images(f, m, called, ok) ==
    [name |-> "flash",
     members |-> Append(f.members, [part |-> images[m], called |-> called, ok |-> ok]),
     ret |-> IF called /\ ~ok THEN FALSE ELSE f.ret,
     done |-> (m = Len(images))]

(***************************************************************************)
(* backup_partitions                                                       *)
(***************************************************************************)

\* Longest stdout of the size query that is enumerated.
MaxLen == 2

\* Characters of the size query's stdout: hex digits, a non-hex letter, the
\* separator and white space.
Chars == {"1", "f", "g", ":", " "}
HexDigits == {"1", "f"}

Strings == UNION { [1..k -> Chars] : k \in 0..MaxLen }

\* str.strip()
RECURSIVE LStrip(_)
LStrip(str) == IF str # <<>> /\ Head(str) = " " THEN LStrip(Tail(str)) ELSE str

RECURSIVE RStrip(_)
RStrip(str) ==
    IF str # <<>> /\ str[Len(str)] = " " THEN RStrip(SubSeq(str, 1, Len(str) - 1)) ELSE str

Strip(str) == LStrip(RStrip(str))

\* ':' in size_line
HasColon(str) == \E i \in 1..Len(str) : str[i] = ":"

\* size_line.split(':')[-1]
RECURSIVE LastField(_)
LastField(str) ==
    IF HasColon(str) THEN LastField(Tail(str)) ELSE str

\* The value of a string of hex digits.
RECURSIVE HexValue(_)
HexValue(str) ==
    IF str = <<>> THEN 0
    ELSE 16 * HexValue(SubSeq(str, 1, Len(str) - 1))
         + (IF str[Len(str)] = "f" THEN 15 ELSE 1)

\* int(size_hex, 16): ok is FALSE where Python raises ValueError.
ParseHex(str) ==
    LET body == Strip(str)
    IN IF body # <<>> /\ \A i \in 1..Len(body) : body[i] \in HexDigits
       THEN [ok |-> TRUE, value |-> HexValue(body)]
       ELSE [ok |-> FALSE, value |-> 0]

\* Replies of fastboot getvar partition-size:<p>: raised, non-zero exit, or
\* exit 0 with a stdout.
SizeReplies ==
    { [kind |-> "exc", out |-> <<>>], [kind |-> "fail", out |-> <<>>] }
    \cup { [kind |-> "out", out |-> o] : o \in Strings }

\* The partition list with the large super partition taken first.
partitions_super_first == <<"super", "boot", "recovery", "dtbo", "vbmeta">>

\* partitions of backup_partitions (line 712).
partitions == <<"boot", "recovery", "dtbo", "vbmeta", "super">>

\* The size check without the conversion of the size string.
size_parsed_unchecked(q) ==
    /\ q.kind = "out"
    /\ HasColon(Strip(q.out))

\* Lines 725-731: whether the loop body goes on to the transfer.
size_parsed(q) ==
    /\ q.kind = "out"
    /\ LET size_line == Strip(q.out)
       IN /\ HasColon(size_line)
          /\ ParseHex(Strip(LastField(size_line))).ok

\* One iteration of the loop of backup_partitions (lines 716-748): the
\* commands it issues for partition p given the size reply q. The result of
\* the transfer is only printed.
backup_one(s, p, q) ==
    LET query == <<Cmd("fastboot", "getvar-partition-size", p, "", s)>>
    IN IF size_parsed(q)
       THEN Append(query, Cmd("fastboot", "fetch", p, "", s))
       ELSE query

(***************************************************************************)
(* main: menu choice 4, GSI ROM Flash                                      *)
(***************************************************************************)

\* flash_system(system_img): the current slot on an A/B device.
flash_system(s, exists, r, d) == flash_slotted(s, "system", exists, r, d)

\* Lines 970-977: resize, delete, create system_a; run_command raises on
\* "exc" and the exception leaves main. rs is the sequence of the replies.
RECURSIVE gsi_resize(_, _, _)
gsi_resize(s, verbs, rs) ==
    IF verbs = <<>> THEN [cmds |-> <<>>, raised |-> FALSE]
    ELSE LET c == Cmd("fastboot", Head(verbs), "system", "_a", s)
         IN IF Head(rs) = "exc" THEN [cmds |-> <<c>>, raised |-> TRUE]
            ELSE LET rest == gsi_resize(s, Tail(verbs), Tail(rs))
                 IN [cmds |-> <<c>> \o rest.cmds, raised |-> rest.raised]

resize_verbs == <<"resize-logical-partition", "delete-logical-partition",
                  "create-logical-partition">>

\* Lines 983-987: flash_partition('vbmeta', ...) with its result dropped, then
\* fastboot --disable-verity --disable-verification flash vbmeta, ungated.
gsi_vbmeta(s, r, d, r2) ==
    LET fl == flash_partition(s, "vbmeta", TRUE, "unknown", TRUE, r, d)
    IN [s |-> fl.s, ret |-> fl.ret, cmds |-> fl.cmds,
        after |-> <<Cmd("fastboot", "flash-disable-verity", "vbmeta", "", fl.s)>>,
        raised |-> (r2 = "exc")]

(***************************************************************************)
(* log_operation calls of the methods                                      *)
(***************************************************************************)

\* One line of the log file; the partition or target that the code puts into
\* the operation text is left out.
LogEntry(operation, status) == [operation |-> operation, status |-> status]

\* What detect_device appends: "Device Detection: FAILED" from its except
\* clause (line 362), "ADB Info: ERROR" from the except clause of
\* _populate_adb_info (line 449); nothing on the other paths.
detect_device_log(s, d) ==
    IF d.fb = "exc" THEN <<LogEntry("Device Detection", "FAILED")>>
    ELSE IF d.fb = "dev" THEN <<>>
    ELSE IF d.adb = "exc" THEN <<LogEntry("Device Detection", "FAILED")>>
    ELSE IF d.adb = "dev" /\ d.slot = "x" THEN <<LogEntry("ADB Info", "ERROR")>>
    ELSE <<>>

\* What reboot_to appends: "Reboot to <target>: FAILED" from its except
\* clause (line 474), and what its detect_device appends.
reboot_to_log(s, target, r, d) ==
    IF ~s.connected THEN <<>>
    ELSE IF r = "exc" THEN <<LogEntry("Reboot", "FAILED")>>
    ELSE detect_device_log(s, d)

\* What flash_partition appends: "Flash <part_name>: SUCCESS" before
\* return True (line 516), "Flash <partition>: FAILED" from its except clause
\* (line 522); the other returns append nothing.
flash_partition_log(s, partition, exists, slot, verify, r, d) ==
    IF WrongMode(s) \/ ~exists THEN <<>>
    ELSE IF r = "exc" THEN <<LogEntry("Flash", "FAILED")>>
    ELSE IF r = "fail" THEN <<>>
    ELSE IF verify
         THEN IF detect_device(s, d).ret
              THEN detect_device_log(s, d) \o <<LogEntry("Flash", "SUCCESS")>>
              ELSE detect_device_log(s, d)
         ELSE <<LogEntry("Flash", "SUCCESS")>>

\* What flash_recovery, flash_system, flash_boot and flash_vendor append:
\* nothing when the slot expression raises, else what their flash_partition
\* appends (neither the partition nor the slot changes that).
flash_entry_log(s, op, exists, r, d) ==
    IF op # "flash_recovery" /\ s.device_info = None THEN <<>>
    ELSE flash_partition_log(s, "recovery", exists, "unknown", TRUE, r, d)

(***************************************************************************)
(* sideload_rom                                                            *)
(***************************************************************************)

\* Replies of the adb devices probe of sideload_rom: run_command raised, the
\* output holds the word sideload, or it does not.
SideloadProbe == {"exc", "sideload", "other"}

\* Outcomes of subprocess.Popen(['adb', 'sideload', rom_zip]): the binary is
\* missing (FileNotFoundError) or the process has started.
PopenReply == {"missing", "started"}

\* Lines 588-591: outside ADB mode the device is first rebooted to recovery;
\* r and d are the inputs of that reboot_to.
sideload_gate(s, r, d) ==
    IF ~s.connected \/ s.device_info.state # ADB
    THEN reboot_to(s, "recovery", r, d)
    ELSE Returned(s, TRUE, <<>>)

\* Lines 593-612 of sideload_rom, up to the start of the transfer process:
\* probe is the reply of adb devices, enter the reply of the bare adb sideload,
\* launch the outcome of Popen. started tells that the method now reads the
\* output of the process (line 615), with no timeout.
sideload_rom(s, r, d, probe, enter, launch) ==
    LET g == sideload_gate(s, r, d)
        c1 == g.cmds \o <<Cmd("adb", "devices", "", "", g.s)>>
        c2 == IF probe = "other"
              THEN c1 \o <<Cmd("adb", "sideload", "", "", g.s)>>
              ELSE c1
        c3 == c2 \o <<Cmd("adb", "sideload", "rom_zip", "", g.s)>>
    IN IF ~g.ret THEN [s |-> g.s, ret |-> FALSE, cmds |-> g.cmds, started |-> FALSE]
       ELSE IF probe = "exc" THEN [s |-> g.s, ret |-> FALSE, cmds |-> c1, started |-> FALSE]
       ELSE IF probe = "other" /\ enter = "exc"
            THEN [s |-> g.s, ret |-> FALSE, cmds |-> c2, started |-> FALSE]
       ELSE IF launch = "missing"
            THEN [s |-> g.s, ret |-> FALSE, cmds |-> c3, started |-> FALSE]
       ELSE [s |-> g.s, ret |-> FALSE, cmds |-> c3, started |-> TRUE]

(***************************************************************************)
(* State machine                                                           *)
(***************************************************************************)

NoCall == [op |-> "none", arg |-> "", pre |-> [connected |-> FALSE, device_info |-> None],
           ret |-> FALSE, slot |-> "unknown", verify |-> FALSE, exists |-> FALSE,
           image |-> NoImage, raised |-> FALSE, logged |-> <<>>, replies |-> <<>>,
           reply |-> "-", fb |-> "-", adb |-> "-",
           query |-> [kind |-> "-", out |-> <<>>], cmds |-> <<>>]

NoFan == [name |-> "none", members |-> <<>>, done |-> FALSE, ret |-> TRUE]

\* The seconds of the wall clock that start_logging can read, and the number
\* of entries appended to one log file.
MaxClock == 1
MaxAppends == 2

\* Managers constructed in the same home directory.
Managers == {"m1", "m2"}

\* The lines log_operation writes: operation and status.
LogEntries == {[operation |-> "Flash boot", status |-> "SUCCESS"],
               [operation |-> "Device Detection", status |-> "FAILED"]}

\* operation_<timestamp>.log does not exist; a manager whose start_logging
\* has not run.
NoFile == <<[operation |-> "no file", status |-> ""]>>
NotConstructed == 0 - 1

\* An empty log directory at second 0. files[f] is the entries of the file
\* named by second f (its three header lines are left out); appended[f] is
\* every entry ever appended to that name, in order.
NoLogs == [clock |-> 0,
           files |-> [f \in 0..MaxClock |-> NoFile],
           log_file |-> [m \in Managers |-> NotConstructed],
           appended |-> [f \in 0..MaxClock |-> <<>>]]

\* Two threads that hold the same AndroidDeviceManager object.
Threads == {"t1", "t2"}

\* A caller outside any method, having read nothing.
NoSnapshot == [read |-> FALSE, connected |-> FALSE, device_info |-> None, during |-> {}]
IdleCaller == [pos |-> "idle", snap |-> NoSnapshot]
NoCallers == [t \in Threads |-> IdleCaller]

\* main() is not running: the manager was constructed by its user directly.
NoMain == [pc |-> "none", attempts |-> 0, entered |-> <<>>, manager |-> TRUE]

Init ==
    /\ connected = FALSE
    /\ device_info = None
    /\ pc = "idle"
    /\ step = 0
    /\ member = 0
    /\ trace = <<>>
    /\ last = NoCall
    /\ stepResults = <<>>
    /\ fan = NoFan
    /\ procRet = "none"
    /\ callers = NoCallers
    /\ logfs = NoLogs
    /\ main = NoMain

\* Inputs that a call reads only under a condition.
InputsIf(cond, S, default) == IF cond THEN S ELSE {default}

NoDetect == [fb |-> "-", adb |-> "-", slot |-> "none", dyn |-> "no"]

SetSession(r) ==
    /\ connected' = r.s.connected
    /\ device_info' = r.s.device_info

\* A method called from the idle caller returns ret.
Returns(ret) ==
    /\ pc' = "done"
    /\ procRet' = IF ret THEN "true" ELSE "false"

\* Arguments callers pass.
RebootTargets == {"bootloader", "recovery", "fastbootd", "system"}
SlotArgs == {"unknown", "a", "b"}
FlashArgs == {"boot", "system"}
EraseArgs == {"cache", "system"}

\* A caller invokes manager.detect_device().
CallDetect ==
    /\ pc = "idle"
    /\ \E d \in DetectInputs :
         LET r == detect_device(Session, d)
         IN /\ SetSession(r)
            /\ trace' = r.cmds
            /\ last' = [NoCall EXCEPT !.op = "detect_device", !.pre = Session,
                                      !.ret = r.ret, !.fb = d.fb, !.adb = d.adb,
                                      !.logged = detect_device_log(Session, d),
                                      !.cmds = r.cmds]
            /\ Returns(r.ret)
    /\ UNCHANGED <<step, member, stepResults, fan>>
    /\ UNCHANGED <<callers, logfs, main>>

\* A caller invokes manager.reboot_to(target).
CallReboot ==
    /\ pc = "idle"
    /\ \E target \in RebootTargets, r \in InputsIf(connected, CmdReply, "-") :
         \E d \in InputsIf(connected /\ r # "exc", DetectInputs, NoDetect) :
           LET res == reboot_to(Session, target, r, d)
           IN /\ SetSession(res)
              /\ trace' = res.cmds
              /\ last' = [NoCall EXCEPT !.op = "reboot_to", !.arg = target, !.pre = Session,
                                        !.logged = reboot_to_log(Session, target, r, d),
                                        !.ret = res.ret, !.reply = r, !.cmds = res.cmds]
              /\ Returns(res.ret)
    /\ UNCHANGED <<step, member, stepResults, fan>>
    /\ UNCHANGED <<callers, logfs, main>>

\* A caller invokes manager.flash_partition(partition, image_path, slot, verify).
CallFlash ==
    /\ pc = "idle"
    /\ \E partition \in FlashArgs, slot \in SlotArgs, verify \in BOOLEAN, image \in Images :
         \E r \in InputsIf(~WrongMode(Session) /\ image.exists, CmdReply, "-") :
           \E d \in InputsIf(r = "ok" /\ verify, DetectInputs, NoDetect) :
             LET exists == image.exists
                 res == flash_partition(Session, partition, exists, slot, verify, r, d)
             IN /\ SetSession(res)
                /\ trace' = res.cmds
                /\ last' = [NoCall EXCEPT !.op = "flash_partition", !.arg = partition,
                                          !.pre = Session, !.ret = res.ret, !.slot = slot,
                                          !.verify = verify, !.exists = exists,
                                          !.image = image,
                                          !.logged = flash_partition_log(Session, partition,
                                                       exists, slot, verify, r, d),
                                          !.reply = r, !.cmds = res.cmds]
                /\ Returns(res.ret)
    /\ UNCHANGED <<step, member, stepResults, fan>>
    /\ UNCHANGED <<callers, logfs, main>>

\* The entry points that flash one named partition.
FlashEntries == {"flash_recovery", "flash_system", "flash_boot", "flash_vendor"}

flash_entry(s, op, exists, r, d) ==
    IF op = "flash_recovery" THEN flash_recovery(s, exists, r, d)
    ELSE IF op = "flash_system" THEN flash_system(s, exists, r, d)
    ELSE IF op = "flash_boot" THEN flash_boot(s, exists, r, d)
    ELSE flash_vendor(s, exists, r, d)

EntryPartition(op) ==
    IF op = "flash_recovery" THEN "recovery"
    ELSE IF op = "flash_system" THEN "system"
    ELSE IF op = "flash_boot" THEN "boot"
    ELSE "vendor"

\* A caller invokes manager.flash_recovery / flash_system / flash_boot /
\* flash_vendor with an image path; an exception leaves the call.
CallFlashEntry ==
    /\ pc = "idle"
    /\ \E op \in FlashEntries, exists \in BOOLEAN :
         \E r \in InputsIf(~WrongMode(Session) /\ exists, CmdReply, "-") :
           \E d \in InputsIf(r = "ok", DetectInputs, NoDetect) :
             LET res == flash_entry(Session, op, exists, r, d)
             IN /\ SetSession(res)
                /\ trace' = res.cmds
                /\ last' = [NoCall EXCEPT !.op = op, !.arg = EntryPartition(op),
                                          !.pre = Session, !.ret = res.ret,
                                          !.slot = IF op = "flash_recovery" \/ res.raised
                                                   THEN "unknown"
                                                   ELSE current_slot_arg(Session),
                                          !.verify = TRUE, !.exists = exists,
                                          !.reply = r, !.cmds = res.cmds,
                                          !.raised = res.raised,
                                          !.logged = flash_entry_log(Session, op, exists, r, d)]
                /\ pc' = IF res.raised THEN "raised" ELSE "done"
                /\ procRet' = IF res.raised THEN "raised"
                              ELSE IF res.ret THEN "true" ELSE "false"
    /\ UNCHANGED <<step, member, stepResults, fan>>
    /\ UNCHANGED <<callers, logfs, main>>

\* A caller invokes manager.erase_partition(partition).
CallErase ==
    /\ pc = "idle"
    /\ \E partition \in EraseArgs, r \in InputsIf(~WrongMode(Session), CmdReply, "-") :
         LET res == erase_partition(Session, partition, r)
         IN /\ SetSession(res)
            /\ trace' = res.cmds
            /\ last' = [NoCall EXCEPT !.op = "erase_partition", !.arg = partition,
                                      !.pre = Session, !.ret = res.ret, !.reply = r, !.cmds = res.cmds]
            /\ Returns(res.ret)
    /\ UNCHANGED <<step, member, stepResults, fan>>
    /\ UNCHANGED <<callers, logfs, main>>

\* A caller invokes manager.format_partition(partition).
CallFormat ==
    /\ pc = "idle"
    /\ \E r \in InputsIf(~WrongMode(Session), CmdReply, "-") :
         LET res == format_partition(Session, "userdata", r)
         IN /\ SetSession(res)
            /\ trace' = res.cmds
            /\ last' = [NoCall EXCEPT !.op = "format_partition", !.arg = "userdata",
                                      !.pre = Session, !.ret = res.ret, !.reply = r, !.cmds = res.cmds]
            /\ Returns(res.ret)
    /\ UNCHANGED <<step, member, stepResults, fan>>
    /\ UNCHANGED <<callers, logfs, main>>

\* The record of a loop at its member m: fresh at the first member.
FanAt(m) == IF m = 1 THEN NoFan ELSE fan

\* A step of unbrick_device returned ok: the loop aborts or goes on.
StepReturns(ok) ==
    LET n == unbrick_loop(step, ok)
    IN /\ stepResults' = Append(stepResults, [step |-> steps[step], ok |-> ok])
       /\ pc' = n.pc
       /\ step' = n.step
       /\ procRet' = n.ret
       /\ member' = 1

\* A caller invokes manager.unbrick_device().
UnbrickStart ==
    /\ pc = "idle"
    /\ pc' = "unbrick"
    /\ step' = 1
    /\ member' = 1
    /\ trace' = <<>>
    /\ last' = NoCall
    /\ stepResults' = <<>>
    /\ fan' = NoFan
    /\ procRet' = "running"
    /\ UNCHANGED <<connected, device_info>>
    /\ UNCHANGED <<callers, logfs, main>>

\* Step "Checking device connection".
UnbrickDetect ==
    /\ pc = "unbrick" /\ steps[step] = "detect_device"
    /\ \E d \in DetectInputs :
         LET r == detect_device(Session, d)
         IN /\ SetSession(r)
            /\ trace' = trace \o r.cmds
            /\ last' = [NoCall EXCEPT !.op = "detect_device", !.pre = Session,
                                      !.ret = r.ret, !.fb = d.fb, !.adb = d.adb,
                                      !.logged = detect_device_log(Session, d),
                                      !.cmds = r.cmds]
            /\ StepReturns(r.ret)
    /\ UNCHANGED fan
    /\ UNCHANGED <<callers, logfs, main>>

\* Steps "Rebooting to bootloader" and "Rebooting to system".
UnbrickReboot ==
    /\ pc = "unbrick" /\ steps[step] \in {"reboot_bootloader", "reboot_system"}
    /\ \E r \in InputsIf(connected, CmdReply, "-") :
         \E d \in InputsIf(connected /\ r # "exc", DetectInputs, NoDetect) :
           LET target == IF steps[step] = "reboot_bootloader" THEN "bootloader" ELSE "system"
               res == reboot_to(Session, target, r, d)
           IN /\ SetSession(res)
              /\ trace' = trace \o res.cmds
              /\ last' = [NoCall EXCEPT !.op = "reboot_to", !.arg = target, !.pre = Session,
                                        !.logged = reboot_to_log(Session, target, r, d),
                                        !.ret = res.ret, !.reply = r, !.cmds = res.cmds]
              /\ StepReturns(res.ret)
    /\ UNCHANGED fan
    /\ UNCHANGED <<callers, logfs, main>>

\* Step "Unlocking critical partitions".
UnbrickUnlock ==
    /\ pc = "unbrick" /\ steps[step] = "_unlock_critical"
    /\ \E r \in CmdReply :
         LET res == _unlock_critical(Session, r)
         IN /\ SetSession(res)
            /\ trace' = trace \o res.cmds
            /\ last' = [NoCall EXCEPT !.op = "_unlock_critical", !.pre = Session,
                                      !.ret = res.ret, !.reply = r, !.cmds = res.cmds]
            /\ StepReturns(res.ret)
    /\ UNCHANGED fan
    /\ UNCHANGED <<callers, logfs, main>>

\* Step "Erasing corrupt partitions", one member of its loop at a time; the
\* step returns after the last member.
UnbrickErase ==
    /\ pc = "unbrick" /\ steps[step] = "_erase_corrupt_partitions"
    /\ \E r \in InputsIf(~WrongMode(Session), CmdReply, "-") :
         LET res == erase_partition(Session, partitions_to_erase[member], r)
             f == _erase_corrupt_partitions(FanAt(member), member, res.ret)
         IN /\ SetSession(res)
            /\ trace' = trace \o res.cmds
            /\ last' = [NoCall EXCEPT !.op = "erase_partition",
                                      !.arg = partitions_to_erase[member],
                                      !.pre = Session, !.ret = res.ret, !.reply = r, !.cmds = res.cmds]
            /\ fan' = f
            /\ IF f.done THEN StepReturns(f.ret)
               ELSE /\ member' = member + 1
                    /\ UNCHANGED <<pc, step, stepResults, procRet>>
    /\ UNCHANGED <<callers, logfs, main>>

\* Step "Flashing stock images", one member of its loop at a time.
UnbrickFlash ==
    /\ pc = "unbrick" /\ steps[step] = "_flash_stock_images"
    /\ \E exists \in BOOLEAN :
         \E r \in InputsIf(~WrongMode(Session) /\ exists, CmdReply, "-") :
           \E d \in InputsIf(r = "ok", DetectInputs, NoDetect) :
             LET res == IF exists
                        THEN flash_partition(Session, images[member], TRUE, "unknown", TRUE, r, d)
                        ELSE Returned(Session, TRUE, <<>>)
                 f == _flash_stock_images(FanAt(member), member, exists, res.ret)
             IN /\ SetSession(res)
                /\ trace' = trace \o res.cmds
                /\ last' = IF exists
                           THEN [NoCall EXCEPT !.op = "flash_partition", !.arg = images[member],
                                               !.logged = flash_partition_log(Session,
                                                   images[member], TRUE, "unknown", TRUE, r, d),
                                               !.pre = Session, !.ret = res.ret,
                                               !.verify = TRUE, !.exists = TRUE, !.reply = r,
                                               !.cmds = res.cmds]
                           ELSE last
                /\ fan' = f
                /\ IF f.done THEN StepReturns(f.ret)
                   ELSE /\ member' = member + 1
                        /\ UNCHANGED <<pc, step, stepResults, procRet>>
    /\ UNCHANGED <<callers, logfs, main>>

\* Step "Formatting userdata".
UnbrickFormat ==
    /\ pc = "unbrick" /\ steps[step] = "format_userdata"
    /\ \E r \in InputsIf(~WrongMode(Session), CmdReply, "-") :
         LET res == format_partition(Session, "userdata", r)
         IN /\ SetSession(res)
            /\ trace' = trace \o res.cmds
            /\ last' = [NoCall EXCEPT !.op = "format_partition", !.arg = "userdata",
                                      !.pre = Session, !.ret = res.ret, !.reply = r, !.cmds = res.cmds]
            /\ StepReturns(res.ret)
    /\ UNCHANGED fan
    /\ UNCHANGED <<callers, logfs, main>>

\* A caller invokes manager.backup_partitions(backup_dir): the mode gate.
BackupStart ==
    /\ pc = "idle"
    /\ trace' = <<>>
    /\ stepResults' = <<>>
    /\ fan' = NoFan
    /\ step' = 0
    /\ IF WrongMode(Session)
       THEN /\ last' = [NoCall EXCEPT !.op = "backup_partitions", !.pre = Session,
                                      !.ret = FALSE]
            /\ Returns(FALSE)
            /\ UNCHANGED member
       ELSE /\ last' = NoCall
            /\ pc' = "backup"
            /\ member' = 1
            /\ procRet' = "running"
    /\ UNCHANGED <<connected, device_info>>
    /\ UNCHANGED <<callers, logfs, main>>

\* One partition of the loop of backup_partitions; after the last one the
\* method returns True.
BackupMember ==
    /\ pc = "backup"
    /\ \E q \in SizeReplies :
         \E f \in InputsIf(size_parsed(q), CmdReply, "-") :
           /\ trace' = trace \o backup_one(Session, partitions[member], q)
           /\ last' = [NoCall EXCEPT !.op = "backup_one", !.arg = partitions[member],
                                     !.pre = Session, !.ret = TRUE, !.reply = f,
                                     !.query = q,
                                     !.cmds = backup_one(Session, partitions[member], q)]
    /\ IF member = Len(partitions)
       THEN /\ pc' = "done"
            /\ procRet' = "true"
            /\ UNCHANGED member
       ELSE /\ member' = member + 1
            /\ UNCHANGED <<pc, procRet>>
    /\ UNCHANGED <<connected, device_info, step, stepResults, fan>>
    /\ UNCHANGED <<callers, logfs, main>>

\* Menu choice 4 with system.img present: detect_device and the mode check of
\* line 964.
GsiStart ==
    /\ pc = "idle"
    /\ stepResults' = <<>>
    /\ fan' = NoFan
    /\ member' = 0
    /\ \E d \in DetectInputs :
         LET r == detect_device(Session, d)
         IN /\ SetSession(r)
            /\ trace' = r.cmds
            /\ last' = [NoCall EXCEPT !.op = "detect_device", !.pre = Session,
                                      !.ret = r.ret, !.fb = d.fb, !.adb = d.adb,
                                      !.logged = detect_device_log(Session, d),
                                      !.cmds = r.cmds]
            /\ IF r.ret /\ r.s.device_info.state = FASTBOOT
               THEN /\ pc' = "gsi"
                    /\ step' = IF r.s.device_info.dynamic_partitions THEN 1 ELSE 2
                    /\ procRet' = "running"
               ELSE /\ pc' = "done"
                    /\ step' = 0
                    /\ procRet' = "false"
    /\ UNCHANGED <<callers, logfs, main>>

\* The three logical-partition commands of a device with dynamic partitions.
GsiResize ==
    /\ pc = "gsi" /\ step = 1
    /\ \E rs \in [1..Len(resize_verbs) -> CmdReply] :
         LET res == gsi_resize(Session, resize_verbs, rs)
         IN /\ trace' = trace \o res.cmds
            /\ last' = [NoCall EXCEPT !.op = "gsi_resize", !.arg = "system",
                                      !.pre = Session,
                                      !.ret = (\A i \in 1..Len(rs) : rs[i] = "ok"),
                                      !.raised = res.raised,
                                      !.replies = SubSeq(rs, 1, Len(res.cmds)),
                                      !.cmds = res.cmds]
            /\ IF res.raised
               THEN /\ pc' = "raised"
                    /\ procRet' = "raised"
                    /\ UNCHANGED step
               ELSE /\ step' = 2
                    /\ UNCHANGED <<pc, procRet>>
    /\ UNCHANGED <<connected, device_info, member, stepResults, fan>>
    /\ UNCHANGED <<callers, logfs, main>>

\* manager.flash_system(system_path).
GsiFlashSystem ==
    /\ pc = "gsi" /\ step = 2
    /\ \E r \in InputsIf(~WrongMode(Session), CmdReply, "-") :
         \E d \in InputsIf(r = "ok", DetectInputs, NoDetect) :
           LET res == flash_system(Session, TRUE, r, d)
           IN /\ SetSession(res)
              /\ trace' = trace \o res.cmds
              /\ last' = [NoCall EXCEPT !.op = "flash_system", !.arg = "system",
                                        !.slot = current_slot_arg(Session),
                                        !.logged = flash_entry_log(Session, "flash_system",
                                                                   TRUE, r, d),
                                        !.pre = Session, !.ret = res.ret,
                                        !.verify = TRUE, !.exists = TRUE, !.reply = r,
                                        !.cmds = res.cmds]
              /\ IF res.ret
                 THEN /\ step' = 3
                      /\ UNCHANGED <<pc, procRet>>
                 ELSE /\ pc' = "done"
                      /\ procRet' = "false"
                      /\ UNCHANGED step
    /\ UNCHANGED <<member, stepResults, fan>>
    /\ UNCHANGED <<callers, logfs, main>>

\* After a successful system flash: the vbmeta flashes when vbmeta.img exists.
GsiVbmeta ==
    /\ pc = "gsi" /\ step = 3
    /\ \E exists \in BOOLEAN :
         IF exists
         THEN \E r \in InputsIf(~WrongMode(Session), CmdReply, "-"), r2 \in CmdReply :
                \E d \in InputsIf(r = "ok", DetectInputs, NoDetect) :
                  LET res == gsi_vbmeta(Session, r, d, r2)
                  IN /\ SetSession(res)
                     /\ trace' = trace \o res.cmds \o res.after
                     /\ last' = [NoCall EXCEPT !.op = "flash_partition", !.arg = "vbmeta",
                                               !.logged = flash_partition_log(Session, "vbmeta",
                                                              TRUE, "unknown", TRUE, r, d),
                                               !.pre = Session, !.ret = res.ret,
                                               !.verify = TRUE, !.exists = TRUE, !.reply = r,
                                               !.cmds = res.cmds]
                     /\ pc' = IF res.raised THEN "raised" ELSE "done"
                     /\ procRet' = IF res.raised THEN "raised" ELSE "true"
         ELSE /\ pc' = "done"
              /\ procRet' = "true"
              /\ UNCHANGED <<connected, device_info, trace, last>>
    /\ UNCHANGED <<step, member, stepResults, fan>>
    /\ UNCHANGED <<callers, logfs, main>>

\* A caller invokes manager.sideload_rom(rom_zip): the method either returns
\* False early or is left reading the output of the transfer process.
CallSideload ==
    /\ pc = "idle"
    /\ LET gated == ~connected \/ device_info.state # ADB
       IN \E r \in InputsIf(gated /\ connected, CmdReply, "-") :
            \E d \in InputsIf(gated /\ connected /\ r # "exc", DetectInputs, NoDetect) :
              LET g == sideload_gate(Session, r, d)
              IN \E probe \in InputsIf(g.ret, SideloadProbe, "-") :
                   \E enter \in InputsIf(probe = "other", CmdReply, "-") :
                     \E launch \in InputsIf(probe \in {"sideload", "other"} /\ enter # "exc",
                                            PopenReply, "-") :
                       LET res == sideload_rom(Session, r, d, probe, enter, launch)
                       IN /\ SetSession(res)
                          /\ trace' = res.cmds
                          /\ last' = [NoCall EXCEPT !.op = "sideload_rom", !.pre = Session,
                                                    !.ret = FALSE, !.reply = launch,
                                                    !.cmds = res.cmds]
                          /\ pc' = IF res.started THEN "sideload" ELSE "done"
                          /\ procRet' = IF res.started THEN "running" ELSE "false"
    /\ UNCHANGED <<step, member, stepResults, fan>>
    /\ UNCHANGED <<callers, logfs, main>>

\* The transfer process closes its output and exits: process.wait() returns
\* and the method returns by the exit status (lines 626-632).
SideloadExit ==
    /\ pc = "sideload"
    /\ \E rc \in {"ok", "fail"} :
         /\ last' = [last EXCEPT !.ret = (rc = "ok"), !.reply = rc]
         /\ Returns(rc = "ok")
    /\ UNCHANGED <<connected, device_info, step, member, trace, stepResults, fan>>
    /\ UNCHANGED <<callers, logfs, main>>

\* The transfer process never completes: the read of its output (line 615)
\* and process.wait() (line 624) have no timeout, and the method blocks.
SideloadHangs ==
    /\ pc = "sideload"
    /\ pc' = "hung"
    /\ UNCHANGED <<connected, device_info, step, member, trace, last, stepResults,
                   fan, procRet>>
    /\ UNCHANGED <<callers, logfs, main>>

\* The procedure has returned to its caller; its history is dropped.
ProcReturn ==
    /\ pc = "done"
    /\ pc' = "idle"
    /\ step' = 0
    /\ member' = 0
    /\ trace' = <<>>
    /\ last' = NoCall
    /\ stepResults' = <<>>
    /\ fan' = NoFan
    /\ procRet' = "none"
    /\ UNCHANGED <<connected, device_info>>
    /\ UNCHANGED <<callers, logfs, main>>

Next ==
    \/ CallDetect
    \/ CallReboot
    \/ CallFlash
    \/ CallFlashEntry
    \/ CallErase
    \/ CallFormat
    \/ UnbrickStart
    \/ UnbrickDetect
    \/ UnbrickReboot
    \/ UnbrickUnlock
    \/ UnbrickErase
    \/ UnbrickFlash
    \/ UnbrickFormat
    \/ BackupStart
    \/ BackupMember
    \/ GsiStart
    \/ GsiResize
    \/ GsiFlashSystem
    \/ GsiVbmeta
    \/ CallSideload
    \/ SideloadExit
    \/ SideloadHangs
    \/ ProcReturn

Spec == Init /\ [][Next]_vars

(***************************************************************************)
(* One manager shared by several threads                                   *)
(***************************************************************************)

\* The manager holds no lock: a method of one caller runs statement by
\* statement between the statements of another. A caller's position names
\* the statement it is blocked in or about to run:
\*   "fb_probe"  fastboot devices is running (line 332)
\*   "fb_slot"   device_info was assigned (line 338); the getvar queries up to
\*               current-slot are running (lines 375-385)
\*   "fb_dyn"    getvar partition-type:system is running (line 394)
\*   "adb_probe" adb devices is running (line 347)
\*   "adb_slot"  device_info was assigned (line 353); the getprop queries up to
\*               ro.boot.slot_suffix are running
\*   "adb_dyn"   getprop ro.boot.dynamic_partitions is running
\*   "set_conn"  the populate helper returned; next is self.connected = True
\*   "fail"      next is self.connected = False (line 364)
\*   "fail2"     next is self.device_info = None (line 365)
\*   "erase"     fastboot erase is running (line 552)
\*   "status"    get_device_status has read the session
DetectPositions == {"fb_probe", "fb_slot", "fb_dyn", "adb_probe", "adb_slot", "adb_dyn",
                    "set_conn", "fail", "fail2"}

\* The positions at which a caller waits for an external command.
CommandPositions == {"fb_probe", "fb_slot", "fb_dyn", "adb_probe", "adb_slot", "adb_dyn",
                     "erase"}

SeqVars == <<pc, step, member, trace, last, stepResults, fan, procRet, logfs, main>>

At(t, p) == callers[t].pos = p

Goto(t, p) == callers' = [callers EXCEPT ![t].pos = p]

\* detect_device is entered and runs fastboot devices.
DetectEnter(t) ==
    /\ At(t, "idle")
    /\ Goto(t, "fb_probe")
    /\ UNCHANGED <<connected, device_info>>
    /\ UNCHANGED SeqVars

\* fastboot devices replied (lines 333-341): a listed device is installed as
\* the held identity at once, with default fields.
DetectFastbootReply(t) ==
    /\ At(t, "fb_probe")
    /\ \E reply \in ProbeReply :
         IF reply = "dev"
         THEN device_info' = DeviceInfo(FASTBOOT) /\ Goto(t, "fb_slot")
         ELSE IF reply = "exc"
              THEN UNCHANGED device_info /\ Goto(t, "fail")
              ELSE UNCHANGED device_info /\ Goto(t, "adb_probe")
    /\ UNCHANGED connected
    /\ UNCHANGED SeqVars

\* adb devices replied (lines 348-357).
DetectAdbReply(t) ==
    /\ At(t, "adb_probe")
    /\ \E reply \in ProbeReply :
         IF reply = "dev"
         THEN device_info' = DeviceInfo(ADB) /\ Goto(t, "adb_slot")
         ELSE UNCHANGED device_info /\ Goto(t, "fail")
    /\ UNCHANGED connected
    /\ UNCHANGED SeqVars

\* The slot query of the populate helper replied: the fields are written to
\* whatever self.device_info is now; on None the attribute access raises, the
\* helper swallows it and returns.
PopulateSlot(t) ==
    /\ callers[t].pos \in {"fb_slot", "adb_slot"}
    /\ \E sl \in SlotReply :
         LET keep == IF device_info.dynamic_partitions THEN "yes" ELSE "no"
             d == [fb |-> "-", adb |-> "-", slot |-> sl, dyn |-> keep]
         IN IF device_info = None
            THEN UNCHANGED device_info /\ Goto(t, "set_conn")
            ELSE IF At(t, "fb_slot")
                 THEN /\ device_info' = _populate_fastboot_info(device_info, d)
                      /\ Goto(t, "fb_dyn")
                 ELSE /\ device_info' = _populate_adb_info(device_info, d)
                      /\ Goto(t, IF sl = "x" THEN "set_conn" ELSE "adb_dyn")
    /\ UNCHANGED connected
    /\ UNCHANGED SeqVars

\* The dynamic-partition query of the populate helper replied.
PopulateDynamic(t) ==
    /\ callers[t].pos \in {"fb_dyn", "adb_dyn"}
    /\ \E dy \in DynReply :
         LET d == [fb |-> "-", adb |-> "-", slot |-> "none", dyn |-> dy]
         IN IF device_info = None
            THEN UNCHANGED device_info
            ELSE IF At(t, "fb_dyn")
                 THEN device_info' = _populate_fastboot_info(device_info, d)
                 ELSE device_info' = _populate_adb_info(device_info, d)
    /\ Goto(t, "set_conn")
    /\ UNCHANGED connected
    /\ UNCHANGED SeqVars

\* self.connected = True; return True (lines 343-344, 358-359).
DetectFound(t) ==
    /\ At(t, "set_conn")
    /\ connected' = TRUE
    /\ Goto(t, "idle")
    /\ UNCHANGED device_info
    /\ UNCHANGED SeqVars

\* self.connected = False (line 364).
DetectLost(t) ==
    /\ At(t, "fail")
    /\ connected' = FALSE
    /\ Goto(t, "fail2")
    /\ UNCHANGED device_info
    /\ UNCHANGED SeqVars

\* self.device_info = None; return False (lines 365-366).
DetectDrop(t) ==
    /\ At(t, "fail2")
    /\ device_info' = None
    /\ Goto(t, "idle")
    /\ UNCHANGED connected
    /\ UNCHANGED SeqVars

\* erase_partition is entered: past the mode gate fastboot erase is started;
\* a rejected call returns at once.
EraseEnter(t) ==
    /\ At(t, "idle")
    /\ IF WrongMode(Session) THEN UNCHANGED callers ELSE Goto(t, "erase")
    /\ UNCHANGED <<connected, device_info>>
    /\ UNCHANGED SeqVars

\* fastboot erase replied and erase_partition returns.
EraseReply(t) ==
    /\ At(t, "erase")
    /\ Goto(t, "idle")
    /\ UNCHANGED <<connected, device_info>>
    /\ UNCHANGED SeqVars

\* get_device_status reads self.connected and self.device_info (lines 755-772);
\* during is where the other callers are at that moment.
StatusRead(t) ==
    /\ At(t, "idle")
    /\ callers' = [callers EXCEPT ![t] =
                     [pos |-> "status",
                      snap |-> [read |-> TRUE, connected |-> connected,
                                device_info |-> device_info,
                                during |-> {callers[u].pos : u \in Threads \ {t}}]]]
    /\ UNCHANGED <<connected, device_info>>
    /\ UNCHANGED SeqVars

\* get_device_status returns.
StatusReturn(t) ==
    /\ At(t, "status")
    /\ callers' = [callers EXCEPT ![t] = IdleCaller]
    /\ UNCHANGED <<connected, device_info>>
    /\ UNCHANGED SeqVars

ConcNext ==
    \E t \in Threads :
        \/ DetectEnter(t)
        \/ DetectFastbootReply(t)
        \/ DetectAdbReply(t)
        \/ PopulateSlot(t)
        \/ PopulateDynamic(t)
        \/ DetectFound(t)
        \/ DetectLost(t)
        \/ DetectDrop(t)
        \/ EraseEnter(t)
        \/ EraseReply(t)
        \/ StatusRead(t)
        \/ StatusReturn(t)

ConcSpec == Init /\ [][ConcNext]_vars

(***************************************************************************)
(* The operation log                                                       *)
(***************************************************************************)

LogUnchanged == UNCHANGED <<connected, device_info, pc, step, member, trace, last,
                            stepResults, fan, procRet, callers, main>>

\* The wall clock reaches the next second.
ClockTick ==
    /\ logfs.clock < MaxClock
    /\ logfs' = [logfs EXCEPT !.clock = logfs.clock + 1]
    /\ LogUnchanged

\* AndroidDeviceManager() runs start_logging: the file named by the current
\* second is opened with mode 'w', which creates it or empties it.
start_logging(m) ==
    /\ logfs.log_file[m] = NotConstructed
    /\ logfs' = [logfs EXCEPT !.log_file[m] = logfs.clock,
                              !.files[logfs.clock] = <<>>]
    /\ LogUnchanged

\* log_operation(operation, status): the entry is appended to self.log_file.
log_operation(m, e) ==
    /\ logfs.log_file[m] # NotConstructed
    /\ Len(logfs.appended[logfs.log_file[m]]) < MaxAppends
    /\ LET f == logfs.log_file[m]
       IN logfs' = [logfs EXCEPT !.files[f] = Append(logfs.files[f], e),
                                 !.appended[f] = Append(logfs.appended[f], e)]
    /\ LogUnchanged

LogNext ==
    \/ ClockTick
    \/ \E m \in Managers : start_logging(m)
    \/ \E m \in Managers, e \in LogEntries : log_operation(m, e)

LogSpec == Init /\ [][LogNext]_vars

(***************************************************************************)
(* The program from its entry point: password_check and main               *)
(***************************************************************************)

\* PASSWORD (line 37).
PASSWORD == "SHRABON2.0"

\* What input() returns at the password prompt: the configured password, the
\* same letters in lower case, the password followed by a space, a wrong
\* word, and an empty line.
Entered == {PASSWORD, "shrabon2.0", "SHRABON2.0 ", "letmein", ""}

\* attempts at the start of password_check (line 848).
attempts == 3

\* password_check granting access at its last attempt whatever was entered.
password_check_last_attempt_grants(left, pw) ==
    IF pw = PASSWORD \/ left = 1 THEN [ret |-> "true", attempts |-> left]
    ELSE IF left - 1 > 0 THEN [ret |-> "again", attempts |-> left - 1]
    ELSE [ret |-> "exit", attempts |-> left - 1]

\* One iteration of the loop of password_check (lines 849-862) with left
\* attempts remaining and pw read: "true" is return True, "again" the next
\* iteration, "exit" sys.exit(1).
password_check(left, pw) ==
    IF pw = PASSWORD THEN [ret |-> "true", attempts |-> left]
    ELSE IF left - 1 > 0 THEN [ret |-> "again", attempts |-> left - 1]
    ELSE [ret |-> "exit", attempts |-> left - 1]

\* Everything but the entry point's own state.
MainUnchanged == UNCHANGED <<connected, device_info, pc, step, member, trace, last,
                             stepResults, fan, procRet, callers, logfs>>

\* The process starts: main() is at password_check, no manager exists.
MainInit ==
    /\ connected = FALSE
    /\ device_info = None
    /\ pc = "idle"
    /\ step = 0
    /\ member = 0
    /\ trace = <<>>
    /\ last = NoCall
    /\ stepResults = <<>>
    /\ fan = NoFan
    /\ procRet = "none"
    /\ callers = NoCallers
    /\ logfs = NoLogs
    /\ main = [pc |-> "password_check", attempts |-> attempts, entered |-> <<>>,
               manager |-> FALSE]

\* password_check reads a password (line 850) and compares it (lines 852-862).
PasswordRead ==
    /\ main.pc = "password_check"
    /\ main.attempts > 0
    /\ \E pw \in Entered :
         LET r == password_check(main.attempts, pw)
         IN main' = [main EXCEPT !.entered = Append(main.entered, pw),
                                 !.attempts = r.attempts,
                                 !.pc = IF r.ret = "true" THEN "construct"
                                        ELSE IF r.ret = "again" THEN "password_check"
                                        ELSE "exited"]
    /\ MainUnchanged

\* input() raised at the password prompt (end of input, Ctrl-C): the entry
\* point (lines 1173-1185) ends the process.
PasswordInterrupted ==
    /\ main.pc = "password_check"
    /\ main.attempts > 0
    /\ main' = [main EXCEPT !.pc = "exited"]
    /\ MainUnchanged

\* manager = AndroidDeviceManager() (line 875): __init__ (lines 280-286)
\* sets the session and runs start_logging.
ConstructManager ==
    /\ main.pc = "construct"
    /\ main' = [main EXCEPT !.pc = "check_prerequisites", !.manager = TRUE]
    /\ connected' = FALSE
    /\ device_info' = None
    /\ logfs' = [logfs EXCEPT !.log_file["m1"] = logfs.clock,
                              !.files[logfs.clock] = <<>>]
    /\ UNCHANGED <<pc, step, member, trace, last, stepResults, fan, procRet, callers>>

\* manager.check_prerequisites() (lines 878-881, 310-326): adb and fastboot
\* are looked up in PATH; a missing one ends the process.
CheckPrerequisites ==
    /\ main.pc = "check_prerequisites"
    /\ \E adb \in BOOLEAN, fastboot \in BOOLEAN :
         main' = [main EXCEPT !.pc = IF adb /\ fastboot THEN "menu" ELSE "exited"]
    /\ MainUnchanged

\* The menu loop (lines 887-1157): the detection at the top of every
\* iteration (line 892) and in options 1, 8 and 9, the erase and format calls
\* of option 8 (lines 1100-1112), the reboot calls of option 9 (lines
\* 1136-1153), and the return of each call. The procedures behind options 2
\* to 7 are the other actions of the single-caller specification.
MenuOption ==
    /\ main.pc = "menu"
    /\ \/ CallDetect
       \/ CallErase
       \/ CallFormat
       \/ CallReboot
       \/ ProcReturn

\* Option 0 (lines 1159-1166): the loop is left and main returns.
MenuExit ==
    /\ main.pc = "menu"
    /\ pc = "idle"
    /\ main' = [main EXCEPT !.pc = "exited"]
    /\ MainUnchanged

MainNext ==
    \/ PasswordRead
    \/ PasswordInterrupted
    \/ ConstructManager
    \/ CheckPrerequisites
    \/ MenuOption
    \/ MenuExit

MainSpec == MainInit /\ [][MainNext]_vars

(***************************************************************************)
(* Properties                                                              *)
(***************************************************************************)

IsProbe(c) == c.verb = "devices"

\* The commands that change a partition or the device's lock state.
MutatingVerbs == {"flash", "erase", "format", "flashing", "flash-disable-verity",
                  "resize-logical-partition", "delete-logical-partition",
                  "create-logical-partition"}

GatedOps == {"flash_partition", "flash_system", "erase_partition", "format_partition"}

\* C1: whenever flash_partition, erase_partition or format_partition is called
\* while no device is held or the held mode is not Fastboot, the call returns
\* False and issues no command at all.
C1_ModeGateRejects ==
    (last.op \in GatedOps /\ HeldMode(last.pre) # FASTBOOT)
        => (last.ret = FALSE /\ last.cmds = <<>>)

\* C1 witness: a flash of an existing image was asked for while the held
\* device was in ADB mode, and was rejected.
C1_Witness ==
    /\ last.op = "flash_partition"
    /\ last.exists
    /\ HeldMode(last.pre) = ADB
    /\ last.ret = FALSE

\* C2: unbrick_device invokes its steps in list order, and a step that
\* returned False is the last one invoked: the procedure has then returned
\* False and no later step runs.
C2_AbortOnFirstFailure ==
    /\ Len(stepResults) <= Len(steps)
    /\ \A i \in 1..Len(stepResults) :
         /\ stepResults[i].step = steps[i]
         /\ ~stepResults[i].ok =>
              (i = Len(stepResults) /\ pc = "done" /\ procRet = "false")
    /\ (pc = "unbrick" => step = Len(stepResults) + 1)

\* C2 witness: the fifth step failed after four successful ones and the
\* procedure stopped there.
C2_Witness ==
    /\ pc = "done"
    /\ procRet = "false"
    /\ Len(stepResults) = 5
    /\ ~stepResults[5].ok

\* C3: a verified flash whose flash command succeeded and whose post-flash
\* detection found no device (the session is left disconnected) returns False.
C3_VerifyFailureReported ==
    (/\ last.op \in {"flash_partition", "flash_system"}
     /\ last.verify
     /\ last.reply = "ok"
     /\ ~connected)
        => last.ret = FALSE

\* C3 witness: such a flash happened: command issued and successful,
\* detection run afterwards, device lost.
C3_Witness ==
    /\ last.op = "flash_partition"
    /\ last.verify
    /\ last.reply = "ok"
    /\ Len(last.cmds) > 1
    /\ ~connected
    /\ last.ret = FALSE

\* C4: every partition-mutating command is issued while the session holds a
\* device in Fastboot mode.
C4_MutatingOnlyInFastboot ==
    \A i \in 1..Len(trace) :
        trace[i].verb \in MutatingVerbs => trace[i].held = FASTBOOT

FanOutSteps == {"_erase_corrupt_partitions", "_flash_stock_images"}

\* C5: a fan-out step of unbrick that finished with a failed member does not
\* end the procedure: the following top-level step is up next.
C5_PartialFailureGoesOn ==
    (/\ stepResults # <<>>
     /\ stepResults[Len(stepResults)].step \in FanOutSteps
     /\ ~stepResults[Len(stepResults)].ok)
        => (pc = "unbrick" /\ step = Len(stepResults) + 1)

FanList == IF fan.name = "erase" THEN partitions_to_erase ELSE images

FanFailed == \E i \in 1..Len(fan.members) : fan.members[i].called /\ ~fan.members[i].ok

\* C6 as stated: a finished fan-out attempted every partition of its list, in
\* order, and failed exactly when a member failed.
C6_EveryMemberAttempted ==
    (fan.name # "none" /\ fan.done)
        => /\ Len(fan.members) = Len(FanList)
           /\ \A i \in 1..Len(fan.members) :
                fan.members[i].part = FanList[i] /\ fan.members[i].called
           /\ (~fan.ret <=> FanFailed)

\* C6 amended: a fan-out visits the partitions of its list in order and to the
\* end, whatever earlier members returned; the erase fan-out attempts every
\* one, the stock-image fan-out attempts those whose image exists; the
\* aggregate is a failure exactly when an attempted member failed.
C6_FanOutVisitsAll ==
    (fan.name # "none")
        => /\ Len(fan.members) <= Len(FanList)
           /\ \A i \in 1..Len(fan.members) : fan.members[i].part = FanList[i]
           /\ (fan.name = "erase" => \A i \in 1..Len(fan.members) : fan.members[i].called)
           /\ (fan.done <=> Len(fan.members) = Len(FanList))
           /\ (~fan.ret <=> FanFailed)

\* C6 witness: the erase fan-out finished, its second member had failed and
\* its later members were attempted all the same.
C6_Witness ==
    /\ fan.name = "erase"
    /\ fan.done
    /\ ~fan.members[2].ok
    /\ fan.members[3].ok
    /\ Len(fan.members) = Len(partitions_to_erase)
    /\ ~fan.ret

\* The size reply q is a successful query whose text after the last ':' is,
\* white space aside, a non-empty run of hex digits.
SizeKnown(q) ==
    /\ q.kind = "out"
    /\ \E k \in 1..Len(q.out) :
         /\ q.out[k] = ":"
         /\ \A j \in (k + 1)..Len(q.out) : q.out[j] # ":"
         /\ \E a, b \in (k + 1)..Len(q.out) :
              /\ a <= b
              /\ \A j \in (k + 1)..Len(q.out) :
                   IF a <= j /\ j <= b THEN q.out[j] \in HexDigits ELSE q.out[j] = " "

HasFetch(cmds, p) == \E i \in 1..Len(cmds) : cmds[i].verb = "fetch" /\ cmds[i].part = p

\* C7: in backup_partitions a fetch of a partition directly follows the size
\* query of that partition, and is issued only if that query succeeded and
\* its size string parsed.
C7_FetchOnlyAfterSize ==
    /\ \A i \in 1..Len(trace) :
         trace[i].verb = "fetch" =>
            /\ i > 1
            /\ trace[i - 1].verb = "getvar-partition-size"
            /\ trace[i - 1].part = trace[i].part
    /\ (last.op = "backup_one" /\ HasFetch(last.cmds, last.arg)) => SizeKnown(last.query)

\* C7 witness: one partition was fetched, and the next one, whose size query
\* succeeded with a text that does not parse, was not.
C7_Witness ==
    /\ last.op = "backup_one"
    /\ last.query.kind = "out"
    /\ last.query.out = <<":", "g">>
    /\ ~HasFetch(last.cmds, last.arg)
    /\ HasFetch(trace, "boot")

\* The mode a reboot target is expected to end in.
ExpectedMode(target) ==
    IF target \in {"bootloader", "fastbootd"} THEN {FASTBOOT}
    ELSE IF target = "recovery" THEN {"recovery"}
    ELSE {ADB, "system"}

\* C8: reboot_to returns True only if the session then holds a device in the
\* mode expected for the target.
C8_RebootReachesTarget ==
    (last.op = "reboot_to" /\ last.ret) => HeldMode(Session) \in ExpectedMode(last.arg)

\* C9: detect_device probes fastboot first; a device listed there is held in
\* Fastboot mode and ADB is not probed; ADB is probed only after a fastboot
\* probe that listed no device, and a device listed there is held in ADB mode.
C9_FastbootFirst ==
    (last.op = "detect_device")
        => /\ last.cmds # <<>>
           /\ last.cmds[1].tool = "fastboot" /\ IsProbe(last.cmds[1])
           /\ (last.fb = "dev" =>
                 /\ last.cmds = <<last.cmds[1]>>
                 /\ last.ret
                 /\ HeldMode(Session) = FASTBOOT)
           /\ (Len(last.cmds) > 1 =>
                 /\ Len(last.cmds) = 2
                 /\ last.cmds[2].tool = "adb" /\ IsProbe(last.cmds[2])
                 /\ last.fb \in {"empty", "nomatch"}
                 /\ (last.adb = "dev" => last.ret /\ HeldMode(Session) = ADB)
                 /\ (last.adb # "dev" => ~last.ret))

\* C9 witness: fastboot listed nothing, ADB was probed and its device is held.
C9_Witness ==
    /\ last.op = "detect_device"
    /\ last.fb = "empty"
    /\ last.adb = "dev"
    /\ Len(last.cmds) = 2
    /\ connected
    /\ device_info.state = ADB

\* C10: detect_device finds the device whenever the fastboot probe produced
\* none, for whatever reason, and the ADB probe has one to list.
C10_AdbFallback ==
    (last.op = "detect_device" /\ last.fb # "dev" /\ last.adb = "dev") => last.ret

\* C12: in every held identity slot_suffix is non-empty exactly when is_ab is
\* true, and slot_current is unknown exactly when is_ab is false, whatever the
\* device reported for its slot.
C12_SlotStateInvariant ==
    (device_info # None)
        => /\ (device_info.slot_suffix # "") <=> device_info.is_ab
           /\ (device_info.slot_current = "unknown") <=> ~device_info.is_ab

\* The calls that end in flash_partition, and the flash command of the call.
FlashOps == {"flash_partition"} \cup FlashEntries

FlashSent == last.op \in FlashOps /\ last.cmds # <<>>

SlotSuffix(slot) == IF slot = "a" THEN "_a" ELSE "_b"

\* The caller named no slot: flash_partition without its slot argument, or one
\* of the entry points that take none.
NoSlotOverride == last.op # "flash_partition" \/ last.slot = "unknown"

\* C13 as stated: whenever a flash is given an explicit slot, the name sent is
\* the base name with _a/_b appended, on every device layout.
C13_ExplicitSlotAlwaysSuffixed ==
    (FlashSent /\ last.op = "flash_partition" /\ last.slot \in {"a", "b"})
        => /\ last.cmds[1].verb = "flash"
           /\ last.cmds[1].part = last.arg
           /\ last.cmds[1].suffix = SlotSuffix(last.slot)

\* C13 amended: an explicit slot is appended to the base name on an A/B
\* device, whatever its current slot and partition scheme; on a device that
\* is not A/B the explicit slot is ignored and the base name is sent.
C13_ExplicitSlotOnAB ==
    (FlashSent /\ last.op = "flash_partition" /\ last.slot \in {"a", "b"})
        => /\ last.cmds[1].verb = "flash"
           /\ last.cmds[1].part = last.arg
           /\ last.cmds[1].suffix = IF last.pre.device_info.is_ab
                                    THEN SlotSuffix(last.slot)
                                    ELSE ""

\* C13 witness: slot B was named on an A/B device whose current slot is A, and
\* the flash went to the _b partition.
C13_Witness ==
    /\ last.op = "flash_partition"
    /\ last.slot = "b"
    /\ last.pre.device_info.is_ab
    /\ last.pre.device_info.slot_current = "a"
    /\ last.cmds # <<>>
    /\ last.cmds[1].verb = "flash"
    /\ last.cmds[1].suffix = "_b"

C15_BaseNameOnNonAB ==
    (FlashSent /\ NoSlotOverride /\ ~last.pre.device_info.is_ab)
        => /\ last.cmds[1].verb = "flash"
           /\ last.cmds[1].part = last.arg
           /\ last.cmds[1].suffix = ""

\* C15 witness: system was flashed with no slot on a device that is not A/B
\* and has dynamic partitions.
C15_Witness ==
    /\ last.op = "flash_partition"
    /\ last.slot = "unknown"
    /\ last.arg = "system"
    /\ ~last.pre.device_info.is_ab
    /\ last.pre.device_info.dynamic_partitions
    /\ last.cmds # <<>>
    /\ last.cmds[1].verb = "flash"
    /\ last.cmds[1].suffix = ""

\* The operation entry points of the manager.
OperationEntries == FlashOps \cup {"erase_partition", "format_partition",
                                   "backup_partitions", "backup_one"}

\* C16: no operation entry point raises past its boundary: in every session
\* state and for every fault of the command it runs, the call returns a
\* result value.
C16_NoEntryPointRaises ==
    (last.op \in OperationEntries) => ~last.raised

\* C19: a flash whose source image does not exist or fails format validation
\* is rejected and issues no flash command.
C19_InvalidImageRejected ==
    (/\ last.op = "flash_partition"
     /\ last.image.exists = last.exists
     /\ ~validate_image_file(last.image))
        => (~last.ret /\ \A i \in 1..Len(last.cmds) : last.cmds[i].verb # "flash")

RebootVerbs == {"reboot", "reboot-bootloader"}

\* C20: for every target and every held mode reboot_to issues exactly one
\* reboot command, ahead of the detection probes, and runs it with the tool of
\* the held mode: adb in ADB mode, fastboot in Fastboot mode.
C20_RebootToolMatchesMode ==
    (last.op = "reboot_to" /\ HeldMode(last.pre) \in {ADB, FASTBOOT})
        => /\ last.cmds # <<>>
           /\ last.cmds[1].verb \in RebootVerbs
           /\ last.cmds[1].tool = HeldMode(last.pre)
           /\ \A i \in 2..Len(last.cmds) : last.cmds[i].verb \notin RebootVerbs

\* C17: every operation returns even when the external command it runs never
\* completes: no call is ever left blocked on a command; a call in progress
\* can always go on to its result.
C17_EveryOperationReturns ==
    (pc \notin {"idle", "done", "raised"}) => ENABLED Next

\* The positions of a detection between the assignment of the new identity
\* and its last write to the session: the identity is installed with fields
\* not yet populated, or the connected flag still belongs to the detection
\* before.
MidDetection == {"fb_slot", "fb_dyn", "adb_slot", "adb_dyn", "set_conn", "fail2"}

\* C11: detection replaces the held identity and slot state atomically: no
\* reader of the session sees the new identity installed while its fields are
\* still being populated, nor a connected flag and an identity that belong to
\* different detections.
C11_DetectionAtomic ==
    \A t \in Threads :
        callers[t].snap.read
            => /\ callers[t].snap.during \cap MidDetection = {}
               /\ callers[t].snap.connected <=> (callers[t].snap.device_info # None)

\* C18: at most one command is in flight to the device at any time, and no
\* detect or execute call is running while another call on the same session
\* is still running.
C18_SessionExclusive ==
    /\ Cardinality({t \in Threads : callers[t].pos \in CommandPositions}) <= 1
    /\ Cardinality({t \in Threads : callers[t].pos \in DetectPositions \cup {"erase"}}) <= 1

\* The calls that run one device command whose reply is recorded in last.
CommandOps == FlashOps \cup {"erase_partition", "format_partition", "_unlock_critical",
                             "reboot_to", "backup_one"}

\* C21: a non-zero exit status of the command an operation runs makes the
\* operation report a non-success outcome, for flash, erase, format,
\* unlock-critical, reboot and the backup transfer alike.
C21_NonZeroExitIsFailure ==
    (last.op \in CommandOps /\ last.cmds # <<>> /\ last.reply = "fail") => ~last.ret

\* C22: the operation log is append-only: a log file holds exactly the entries
\* appended to it, in append order; nothing the program does later, the
\* construction of another manager included, removes or rewrites an entry.
C22_LogAppendOnly ==
    \A f \in 0..MaxClock :
        (logfs.files[f] # NoFile) => logfs.files[f] = logfs.appended[f]

\* The outcome a log entry of a call is to carry.
OutcomeOf(ret) == IF ret THEN "SUCCESS" ELSE "FAILED"

\* C23: every call of detect_device or reboot_to appends exactly one log
\* entry, which records the call and its outcome, whether it succeeded or
\* failed.
C23_SessionCallsLogged ==
    (last.op \in {"detect_device", "reboot_to"})
        => /\ Len(last.logged) = 1
           /\ last.logged[1].operation =
                 (IF last.op = "detect_device" THEN "Device Detection" ELSE "Reboot")
           /\ last.logged[1].status = OutcomeOf(last.ret)

\* C24: every flash, erase, format and backup that is executed (its device
\* command was issued) appends a log entry with its outcome.
C24_ExecutedOperationsLogged ==
    (/\ last.op \in FlashOps \cup {"erase_partition", "format_partition", "backup_one"}
     /\ last.cmds # <<>>)
        => \E i \in 1..Len(last.logged) :
              /\ last.logged[i].operation \notin {"Device Detection", "ADB Info"}
              /\ last.logged[i].status = OutcomeOf(last.ret)

\* Every identity a detection can leave in the session.
HeldInfos ==
    { detect_device(NoCall.pre, d).s.device_info : d \in DetectInputs } \ {None}

\* Two identities agree on what partition resolution may depend on.
SameLayout(i1, i2) ==
    /\ i1.is_ab = i2.is_ab
    /\ i1.dynamic_partitions = i2.dynamic_partitions
    /\ i1.slot_current = i2.slot_current

\* C25: the partition name a flash sends is a function of the base name, the
\* slot override, is_ab, dynamic_partitions and the current slot only: it is
\* the name resolved for any identity that agrees on these; and resolving it
\* changes no session state: a flash that runs no verification detect leaves
\* the session as it found it.
C25_ResolutionDeterministic ==
    /\ FlashSent =>
         \A info \in HeldInfos :
             SameLayout(info, last.pre.device_info)
                 => part_name(info, last.arg, last.slot) = last.cmds[1].suffix
    /\ (last.op \in FlashOps /\ ~last.raised /\ (~last.verify \/ last.reply # "ok"))
         => Session = last.pre

\* C25 witness: a flash with an explicit slot was sent for an A/B device, and
\* another identity with the same layout but another mode exists to compare.
C25_Witness ==
    /\ FlashSent
    /\ last.slot = "b"
    /\ last.pre.device_info.is_ab
    /\ last.cmds[1].suffix = "_b"
    /\ ~last.verify
    /\ \E info \in HeldInfos :
          /\ info # last.pre.device_info
          /\ SameLayout(info, last.pre.device_info)

LogicalVerbs == {"resize-logical-partition", "delete-logical-partition",
                 "create-logical-partition"}

\* C26: the GSI flow is strictly sequenced: each logical-partition command is
\* issued only after the ones before it succeeded, the flow goes on to the
\* system flash only if all of them succeeded, and after a failed vbmeta
\* flash no further device command is issued.
C26_GsiStrictlySequenced ==
    /\ (last.op = "gsi_resize") =>
          /\ \A i \in 2..Len(last.cmds) : last.replies[i - 1] = "ok"
          /\ (pc = "gsi" /\ step = 2) => last.ret
    /\ (last.op = "flash_partition" /\ last.arg = "vbmeta" /\ ~last.ret /\ trace # <<>>)
          => trace[Len(trace)].verb # "flash-disable-verity"

\* The name a command of the trace addresses.
Target(c) == <<c.part, c.suffix>>

\* C27: on a device with dynamic partitions the logical partition that the
\* GSI flow resizes, deletes and re-creates is the partition its system flash
\* writes, for current slot A or B and for a device that is not A/B.
C27_GsiSamePartition ==
    \A i \in 1..Len(trace), j \in 1..Len(trace) :
        (/\ trace[i].verb \in LogicalVerbs
         /\ trace[j].verb = "flash"
         /\ trace[j].part = "system")
            => Target(trace[i]) = Target(trace[j])

Disconnected == ~connected /\ device_info = None

\* The call of last ran a detection and that detection found no device.
DetectionFailed ==
    \/ last.op = "detect_device" /\ ~last.ret
    \/ last.op \in FlashOps /\ last.verify /\ last.reply = "ok" /\ ~last.raised /\ ~last.ret
    \/ last.op = "reboot_to" /\ last.pre.connected /\ last.reply # "exc" /\ ~last.ret

\* The manager operations behind the Fastboot mode gate, and their commands.
GatedCalls == FlashOps \cup {"erase_partition", "format_partition", "backup_partitions"}

GatedVerbs == {"flash", "erase", "format", "getvar-partition-size", "fetch"}

C29_SessionInvariant ==
    /\ connected <=> (device_info # None)
    /\ (device_info # None) => device_info.state \in {FASTBOOT, ADB}

\* C29 witness: the verification detect of a successful flash found the
\* device in ADB mode, and the session holds it, connected.
C29_Witness ==
    /\ last.op = "flash_partition"
    /\ last.reply = "ok"
    /\ last.verify
    /\ last.ret
    /\ connected
    /\ device_info.state = ADB

\* C30: past its mode gate backup_partitions queries the size of boot,
\* recovery, dtbo, vbmeta and super in this order whatever the earlier
\* partitions did, and returns True for every combination of outcomes, no
\* transfer at all included; it returns False only when the gate rejects.
SizeQueries == SelectSeq(trace, LAMBDA c : c.verb = "getvar-partition-size")

NoStockImage ==
    /\ fan.name = "flash"
    /\ \A i \in 1..Len(fan.members) : ~fan.members[i].called

\* The flash commands of the current unbrick_device call.
StockFlashes == {i \in 1..Len(trace) : trace[i].verb = "flash"}

\* C31: in the stock-image fan-out a partition whose image file is missing is
\* skipped: no flash command names it and it does not count as a failure; the
\* fan-out returns failure only if an attempted flash returned failure, so it
\* returns success when no image exists, and unbrick_device then goes on to
\* format userdata and, once that succeeded, to reboot to system, with no
\* flash command issued for the erased partitions.
C31_MissingImageSkipped ==
    (fan.name = "flash")
        => /\ \A i \in 1..Len(fan.members) :
                ~fan.members[i].called
                    => \A j \in StockFlashes : trace[j].part # fan.members[i].part
           /\ (~fan.ret => FanFailed)
           /\ (fan.done /\ NoStockImage)
                => /\ fan.ret
                   /\ StockFlashes = {}
                   /\ Len(stepResults) >= 5
                   /\ stepResults[5] = [step |-> "_flash_stock_images", ok |-> TRUE]
                   /\ (Len(stepResults) = 5
                         => pc = "unbrick" /\ steps[step] = "format_userdata")
                   /\ (Len(stepResults) = 6 /\ stepResults[6].ok
                         => pc = "unbrick" /\ steps[step] = "reboot_system")

\* C31 witness: all six partitions were erased, no stock image existed, the
\* fan-out returned success, userdata was formatted and the reboot to system
\* is the step up next.
C31_Witness ==
    /\ NoStockImage
    /\ fan.done
    /\ fan.ret
    /\ Len(fan.members) = Len(images)
    /\ pc = "unbrick"
    /\ steps[step] = "reboot_system"
    /\ \E i \in 1..Len(trace) : trace[i].verb = "format" /\ trace[i].part = "userdata"
    /\ \A p \in {"boot", "system", "vendor", "recovery"} :
         \E i \in 1..Len(trace) : trace[i].verb = "erase" /\ trace[i].part = p
    /\ StockFlashes = {}

(***************************************************************************)
(* C32                                                                     *)
(***************************************************************************)

\* The passwords read before the last one.
EarlierEntered == {main.entered[i] : i \in 1..(Len(main.entered) - 1)}

\* Access was granted: the last password read equals the configured one.
Granted == main.entered # <<>> /\ main.entered[Len(main.entered)] = PASSWORD

\* Nothing of the device manager exists or has run.
NoManagerActivity ==
    /\ ~main.manager
    /\ trace = <<>>
    /\ last = NoCall
    /\ pc = "idle"
    /\ ~connected
    /\ device_info = None
    /\ logfs = NoLogs

\* C32: the password gate. The device manager is constructed and the menu
\* loop entered only after an entered password equalled the configured one;
\* at most three passwords are read, reading stops at the first match, and
\* after a third wrong password the program has exited with no manager
\* constructed and no device command issued.
C32_PasswordGate ==
    /\ Len(main.entered) <= 3
    /\ PASSWORD \notin EarlierEntered
    /\ (main.manager \/ main.pc \in {"construct", "check_prerequisites", "menu"}) => Granted
    /\ ~Granted => NoManagerActivity
    /\ (Len(main.entered) = 3 /\ ~Granted) => main.pc = "exited"

\* C32 witness, refusal: three wrong passwords were read, among them the
\* configured one in lower case and with a trailing space, and the program
\* has exited.
C32_Witness ==
    /\ Len(main.entered) = 3
    /\ main.entered[2] = "shrabon2.0"
    /\ main.entered[3] = "SHRABON2.0 "
    /\ main.pc = "exited"
    /\ NoManagerActivity

====
